---- MODULE Spec2Model ----
(***************************************************************************)
(* A model of the configuration merge engine and the seed reader of        *)
(* cloudinit/util.py: mergedict, load_yaml, read_conf, read_conf_d,         *)
(* read_conf_with_confd, read_cc_from_cmdline, merge_base_cfg and           *)
(* read_seeded.                                                            *)
(*                                                                         *)
(* Python objects live in a heap (a sequence of dict objects), so that the *)
(* in-place writes of mergedict and the sharing they create are part of    *)
(* the model.  Strings are sequences of one-character strings.             *)
(***************************************************************************)
EXTENDS Integers, Sequences, FiniteSets, TLC

VARIABLES
    pc,        \* "idle", "cc_loop", "seed_md", "seed_ud", "seed_back",
               \* "base_held" or "done"
    op,        \* the function the current call entered; "mergedict_shared"
               \* is mergedict entered on operands that share a mapping
    heap0,     \* the heap when the call was entered
    heap,      \* the heap now
    arg,       \* the arguments (and the environment) of the call
    loc,       \* the local variables of a call that runs in steps
    ret        \* [val, exc]: the value returned or the exception raised

vars == <<pc, op, heap0, heap, arg, loc, ret>>

-----------------------------------------------------------------------------
(* Python values.  A dict is a reference into the heap; everything else is  *)
(* an immutable atom carrying its type name and its text.                   *)

MkInt(a) == [kind |-> "int", ref |-> 0, atom |-> a]
MkStr(a) == [kind |-> "str", ref |-> 0, atom |-> a]
MkList(a) == [kind |-> "list", ref |-> 0, atom |-> a]
MkRef(id) == [kind |-> "dict", ref |-> id, atom |-> <<>>]
PyNone == [kind |-> "NoneType", ref |-> 0, atom |-> <<>>]

\* isinstance(v, dict)
IsDict(v) == v.kind = "dict"

\* obj_name(obj): the name of the object's class
obj_name(v) == v.kind

\* the empty dict object
EmptyObj == [k \in {} |-> PyNone]

\* exceptions
NoExc == [type |-> "none", what |-> "", tname |-> ""]
MergeTypeError(side, v) ==
    [type |-> "TypeError", what |-> side, tname |-> obj_name(v)]

Raised(r) == r.exc.type # "none"

-----------------------------------------------------------------------------
(* Documents as plain trees: what a dict of the heap looks like when it is  *)
(* read through, and what the inputs are drawn from.                        *)

NoItems == [k \in {} |-> 0]
IntT(a) == [kind |-> "int", atom |-> a, items |-> NoItems]
StrT(a) == [kind |-> "str", atom |-> a, items |-> NoItems]
ListT(a) == [kind |-> "list", atom |-> a, items |-> NoItems]
NoneT == [kind |-> "NoneType", atom |-> <<>>, items |-> NoItems]
DictT(f) == [kind |-> "dict", atom |-> <<>>, items |-> f]

TKeys(t) == DOMAIN t.items

\* the iteration orders of a dict: Python 2 fixes none, the model tries a
\* key order and its reverse
KeyOrder == <<"conf_d", "n", "x", "y", "z">>
Reverse(s) == [i \in 1..Len(s) |-> s[Len(s) + 1 - i]]
Orders == {KeyOrder, Reverse(KeyOrder)}
KeysInOrder(S, ord) == SelectSeq(ord, LAMBDA k : k \in S)

\* the tree of a heap value
RECURSIVE Deref(_, _)
Deref(h, v) ==
    IF IsDict(v)
    THEN DictT([k \in DOMAIN h[v.ref] |-> Deref(h, h[v.ref][k])])
    ELSE [kind |-> v.kind, atom |-> v.atom, items |-> NoItems]

\* a fresh copy of a tree in the heap: [h, val]
RECURSIVE Alloc(_, _), AllocItems(_, _, _, _)
Alloc(h, t) ==
    IF t.kind = "dict"
    THEN LET h1 == Append(h, EmptyObj)
         IN  [h |-> AllocItems(h1, Len(h1), t, KeysInOrder(TKeys(t), KeyOrder)),
              val |-> MkRef(Len(h1))]
    ELSE [h |-> h, val |-> [kind |-> t.kind, ref |-> 0, atom |-> t.atom]]
AllocItems(h, id, t, ks) ==
    IF ks = <<>> THEN h
    ELSE LET k == Head(ks)
             c == Alloc(h, t.items[k])
             o == c.h[id]
             o2 == [j \in DOMAIN o \cup {k} |-> IF j = k THEN c.val ELSE o[j]]
         IN  AllocItems([c.h EXCEPT ![id] = o2], id, t, Tail(ks))

\* src[k] = v
SetItem(h, id, k, v) ==
    [h EXCEPT ![id] = [j \in DOMAIN h[id] \cup {k} |-> IF j = k THEN v ELSE h[id][j]]]

-----------------------------------------------------------------------------
(* Python strings: sequences of characters, positions counted from 0.       *)

\* s[i:j]
Slice(s, i, j) ==
    LET a == IF i < 0 THEN 0 ELSE i
        b == IF j > Len(s) THEN Len(s) ELSE j
    IN  IF a >= b THEN <<>> ELSE SubSeq(s, a + 1, b)

\* s.startswith(t), s.endswith(t)
StartsWith(s, t) == Len(t) <= Len(s) /\ SubSeq(s, 1, Len(t)) = t
EndsWith(s, t) == Len(t) <= Len(s) /\ SubSeq(s, Len(s) - Len(t) + 1, Len(s)) = t

\* the positions at which t occurs in s
Occurrences(s, t) == {i \in 0..(Len(s) - Len(t)) : Slice(s, i, i + Len(t)) = t}

Min(S) == CHOOSE m \in S : \A n \in S : m <= n

\* s.find(t, start): the first position from start on, or -1
Find(s, t, start) ==
    LET at == {i \in Occurrences(s, t) : i >= start}
    IN  IF at = {} THEN -1 ELSE Min(at)

Whitespace == {" ", "\n", "\t"}

\* s.lstrip(), s.rstrip(), s.strip()
RECURSIVE LStrip(_)
LStrip(s) == IF s # <<>> /\ Head(s) \in Whitespace THEN LStrip(Tail(s)) ELSE s
RECURSIVE RStrip(_)
RStrip(s) ==
    IF s # <<>> /\ s[Len(s)] \in Whitespace THEN RStrip(SubSeq(s, 1, Len(s) - 1)) ELSE s
Strip(s) == RStrip(LStrip(s))

\* s.replace(old, new), old not empty
RECURSIVE Replace(_, _, _)
Replace(s, old, new) ==
    IF s = <<>> THEN <<>>
    ELSE IF StartsWith(s, old)
         THEN new \o Replace(SubSeq(s, Len(old) + 1, Len(s)), old, new)
         ELSE <<Head(s)>> \o Replace(Tail(s), old, new)

\* sep.join(parts)
RECURSIVE Join(_, _)
Join(sep, parts) ==
    IF parts = <<>> THEN <<>>
    ELSE IF Len(parts) = 1 THEN parts[1]
         ELSE parts[1] \o sep \o Join(sep, Tail(parts))

\* the concatenation of a sequence of strings
Concat(parts) == Join(<<>>, parts)

-----------------------------------------------------------------------------
(* mergedict(src, cand)                                                     *)

RECURSIVE mergedict(_, _, _, _), mergedict_items(_, _, _, _, _)
\* mergedict without its check of cand: a non-dict cand is let through
mergedict_unchecked_cand(h, src, cand, ord) ==
    IF IsDict(src) /\ IsDict(cand)
    THEN mergedict_items(h, src, cand, KeysInOrder(DOMAIN h[cand.ref], ord), ord)
    ELSE IF ~IsDict(src)
         THEN [h |-> h, val |-> PyNone, exc |-> MergeTypeError("source", src)]
         ELSE [h |-> h, val |-> src, exc |-> NoExc]
mergedict(h, src, cand, ord) ==
    IF IsDict(src) /\ IsDict(cand)
    THEN mergedict_items(h, src, cand, KeysInOrder(DOMAIN h[cand.ref], ord), ord)
    ELSE IF ~IsDict(src)
         THEN [h |-> h, val |-> PyNone, exc |-> MergeTypeError("source", src)]
         ELSE [h |-> h, val |-> PyNone, exc |-> MergeTypeError("candidate", cand)]
\* the loop storing cand's value under a key src has already
mergedict_items_overwrite(h, src, cand, ks, ord) ==
    IF ks = <<>> THEN [h |-> h, val |-> src, exc |-> NoExc]
    ELSE LET k == Head(ks)
             v == h[cand.ref][k]
         IN  IF k \notin DOMAIN h[src.ref]
             THEN mergedict_items(SetItem(h, src.ref, k, v), src, cand, Tail(ks), ord)
             ELSE LET r == mergedict(h, h[src.ref][k], v, ord)
                  IN  IF Raised(r) THEN r
                      ELSE mergedict_items(SetItem(r.h, src.ref, k, v),
                                           src, cand, Tail(ks), ord)
\* the loop storing the merged value under cand's key as well
mergedict_items_write_cand(h, src, cand, ks, ord) ==
    IF ks = <<>> THEN [h |-> h, val |-> src, exc |-> NoExc]
    ELSE LET k == Head(ks)
             v == h[cand.ref][k]
         IN  IF k \notin DOMAIN h[src.ref]
             THEN mergedict_items(SetItem(h, src.ref, k, v), src, cand, Tail(ks), ord)
             ELSE LET r == mergedict(h, h[src.ref][k], v, ord)
                  IN  IF Raised(r) THEN r
                      ELSE mergedict_items(SetItem(SetItem(r.h, src.ref, k, r.val),
                                                   cand.ref, k, r.val),
                                           src, cand, Tail(ks), ord)
\* the loop over cand.iteritems(), ks being the keys still to visit
mergedict_items(h, src, cand, ks, ord) ==
    IF ks = <<>> THEN [h |-> h, val |-> src, exc |-> NoExc]
    ELSE LET k == Head(ks)
             v == h[cand.ref][k]
         IN  IF k \notin DOMAIN h[src.ref]
             THEN mergedict_items(SetItem(h, src.ref, k, v), src, cand, Tail(ks), ord)
             ELSE LET r == mergedict(h, h[src.ref][k], v, ord)
                  IN  IF Raised(r) THEN r
                      ELSE mergedict_items(SetItem(r.h, src.ref, k, r.val),
                                           src, cand, Tail(ks), ord)

-----------------------------------------------------------------------------
(* The operands mergedict is called on.                                     *)

MergeKeys == {"x", "y"}
Scalars == {IntT(<<"1">>), IntT(<<"2">>)}
DictsOver(V) == {DictT(f) : f \in UNION {[S -> V] : S \in SUBSET MergeKeys}}
Dicts1 == DictsOver(Scalars)
Dicts2 == DictsOver(Scalars \cup Dicts1)
MergeOperands == Scalars \cup Dicts2

-----------------------------------------------------------------------------
(* yaml.load on the documents used here: block mappings of one entry per    *)
(* line, whose values are integers, words, flow lists, or flow mappings of  *)
(* at most one entry.  The result is [ok, tree]; ok is FALSE for a          *)
(* YAMLError.                                                               *)

Digits == {"0", "1", "2", "3", "4", "5", "6", "7", "8", "9"}
YamlError == [ok |-> FALSE, tree |-> NoneT]
YamlOk(t) == [ok |-> TRUE, tree |-> t]

\* s.split(ch)
RECURSIVE Split(_, _)
Split(s, ch) ==
    LET at == Find(s, <<ch>>, 0)
    IN  IF at < 0 THEN <<s>>
        ELSE <<Slice(s, 0, at)>> \o Split(Slice(s, at + 1, Len(s)), ch)

\* the position of the colon that ends the key of an entry, or -1
KeyColon(line) ==
    LET at == {i \in Occurrences(line, <<":">>) :
                  i + 1 = Len(line) \/ line[i + 2] = " "}
    IN  IF at = {} THEN -1 ELSE Min(at)

\* keys are kept as TLA+ strings: the one-character keys of the documents
\* and conf_d
KeyName(chars) ==
    IF chars = <<"c", "o", "n", "f", "_", "d">> THEN "conf_d"
    ELSE IF Len(chars) = 1 THEN chars[1]
    ELSE "?"

RECURSIVE yaml_value(_)
\* a flow mapping of the one entry k: v
yaml_flow_dict(k, v) ==
    IF ~v.ok THEN YamlError ELSE YamlOk(DictT([j \in {k} |-> v.tree]))
\* the inside of a flow mapping, c being the position of its colon
yaml_flow_entry(inner, c) ==
    IF c <= 0 THEN YamlError
    ELSE yaml_flow_dict(KeyName(Slice(inner, 0, c)),
                        yaml_value(Slice(inner, c + 1, Len(inner))))
yaml_flow(inner) ==
    IF inner = <<>> THEN YamlOk(DictT(NoItems))
    ELSE yaml_flow_entry(inner, KeyColon(inner))
\* a value without the whitespace around it
yaml_scalar(s) ==
    IF s = <<>> THEN YamlOk(NoneT)
    ELSE IF \A i \in 1..Len(s) : s[i] \in Digits THEN YamlOk(IntT(s))
    ELSE IF Head(s) = "["
         THEN IF s[Len(s)] = "]" THEN YamlOk(ListT(Slice(s, 1, Len(s) - 1)))
              ELSE YamlError
    ELSE IF Head(s) = "{"
         THEN IF s[Len(s)] # "}" THEN YamlError
              ELSE yaml_flow(Strip(Slice(s, 1, Len(s) - 1)))
    ELSE IF s[Len(s)] \in {"]", "}"} THEN YamlError
    ELSE YamlOk(StrT(s))
yaml_value(text) == yaml_scalar(Strip(text))

RECURSIVE yaml_entries(_, _)
\* the entry k: v joins those read so far, replacing an earlier one of its key
yaml_entry_add(k, v, rest, acc) ==
    IF ~v.ok THEN YamlError
    ELSE yaml_entries(rest, [j \in DOMAIN acc \cup {k} |-> IF j = k THEN v.tree ELSE acc[j]])
\* a line of a block mapping, c being the position of its colon
yaml_entry(line, c, rest, acc) ==
    IF c <= 0 \/ Head(line) \in Whitespace \cup {"[", "{", "-"} THEN YamlError
    ELSE yaml_entry_add(KeyName(Slice(line, 0, c)),
                        yaml_value(Slice(line, c + 1, Len(line))), rest, acc)
\* the entries of the lines
yaml_entries(lines, acc) ==
    IF lines = <<>> THEN YamlOk(DictT(acc))
    ELSE yaml_entry(Head(lines), KeyColon(Head(lines)), Tail(lines), acc)

\* the document of the lines that are not blank
yaml_document(lines, text) ==
    IF lines = <<>> THEN YamlOk(NoneT)
    ELSE IF Head(lines[1]) = "-" THEN YamlOk(ListT(Strip(text)))
    ELSE IF Len(lines) = 1 /\ KeyColon(lines[1]) < 0 THEN yaml_value(lines[1])
    ELSE yaml_entries(lines, NoItems)
yaml_load(text) ==
    yaml_document(SelectSeq(Split(text, "\n"), LAMBDA l : Strip(l) # <<>>), text)

\* {}: a new empty dict
NewDict(h) == [h |-> Append(h, EmptyObj), val |-> MkRef(Len(h) + 1)]

\* load_yaml once yaml.load has answered: the root must be a dict
load_yaml_converted(h, converted, default) ==
    IF converted.ok /\ converted.tree.kind = "dict"
    THEN Alloc(h, converted.tree)
    ELSE [h |-> h, val |-> default]
\* load_yaml(blob, default), allowed=(dict,): [h, val]
load_yaml(h, blob, default) == load_yaml_converted(h, yaml_load(blob), default)
\* load_yaml(blob, default={}), d being the new {}
load_yaml_or_empty(d, blob) == load_yaml(d.h, blob, d.val)

-----------------------------------------------------------------------------
(* read_cc_from_cmdline(cmdline)                                            *)

tag_begin == <<"c", "c", ":">>
tag_end == <<"e", "n", "d", "_", "c", "c">>
begin_l == Len(tag_begin)
end_l == Len(tag_end)
Backslash_n == <<"\\", "n">>
Newline == <<"\n">>

\* the state before the loop
cc_enter(cmdline) ==
    [begin |-> Find(cmdline, tag_begin, 0), end |-> -1, tokens |-> <<>>]

\* one pass of the while loop; the token is stripped on the right as well
cc_pass_strip(cmdline, st) ==
    LET found == Find(cmdline, tag_end, st.begin + begin_l)
        end == IF found < 0 THEN Len(cmdline) ELSE found
        token == Replace(Strip(Slice(cmdline, st.begin + begin_l, end)),
                         Backslash_n, Newline)
    IN  [begin |-> Find(cmdline, tag_begin, end + end_l),
         end |-> end,
         tokens |-> Append(st.tokens, token)]
\* one pass of the while loop; the next search starts at the end tag
cc_pass_rescan(cmdline, st) ==
    LET found == Find(cmdline, tag_end, st.begin + begin_l)
        end == IF found < 0 THEN Len(cmdline) ELSE found
        token == Replace(LStrip(Slice(cmdline, st.begin + begin_l, end)),
                         Backslash_n, Newline)
    IN  [begin |-> Find(cmdline, tag_begin, end),
         end |-> end,
         tokens |-> Append(st.tokens, token)]
\* one pass of the while loop; a block without end_cc is not extended to the
\* end of the command line
cc_pass_open_end(cmdline, st) ==
    LET end == Find(cmdline, tag_end, st.begin + begin_l)
        token == Replace(LStrip(Slice(cmdline, st.begin + begin_l, end)),
                         Backslash_n, Newline)
    IN  [begin |-> Find(cmdline, tag_begin, end + end_l),
         end |-> end,
         tokens |-> Append(st.tokens, token)]
\* one pass of the while loop
cc_pass(cmdline, st) ==
    LET found == Find(cmdline, tag_end, st.begin + begin_l)
        end == IF found < 0 THEN Len(cmdline) ELSE found
        token == Replace(LStrip(Slice(cmdline, st.begin + begin_l, end)),
                         Backslash_n, Newline)
    IN  [begin |-> Find(cmdline, tag_begin, end + end_l),
         end |-> end,
         tokens |-> Append(st.tokens, token)]

\* the value returned once the loop is left
cc_result(st) == Join(Newline, st.tokens)

\* the whole call, for the callers that use its value
RECURSIVE cc_loop(_, _)
cc_loop(cmdline, st) ==
    IF st.begin >= 0 THEN cc_loop(cmdline, cc_pass(cmdline, st)) ELSE st
read_cc_from_cmdline(cmdline) == cc_result(cc_loop(cmdline, cc_enter(cmdline)))

\* the command lines tried: up to MaxPieces pieces, and the documented ones
MaxPieces == 4
Pieces == {tag_begin, tag_end, <<" ">>, <<"a">>, Backslash_n, <<"e", "n", "d", "_">>}
PieceSeqs == UNION {[1..n -> Pieces] : n \in 0..MaxPieces}
\* cc: a: 1\\nb: 2 end_cc
CmdlineEscaped ==
    tag_begin \o <<" ", "a", ":", " ", "1">> \o Backslash_n
              \o <<"b", ":", " ", "2", " ">> \o tag_end
\* cc:<newline>x: 9<newline>end_cc
CmdlineNewlines ==
    tag_begin \o Newline \o <<"x", ":", " ", "9">> \o Newline \o tag_end
\* ro cc:x: 9 end_cc quiet cc: y: 7
CmdlineTwoBlocks ==
    <<"r", "o", " ">> \o tag_begin \o <<"x", ":", " ", "9", " ">> \o tag_end
        \o <<" ", "q", " ">> \o tag_begin \o <<" ", "y", ":", " ", "7">>
Cmdlines ==
    {Concat(ps) : ps \in PieceSeqs}
        \cup {CmdlineEscaped, CmdlineNewlines, CmdlineTwoBlocks}

-----------------------------------------------------------------------------
(* The file system and the environment, as the functions below see them.    *)
(* fs maps a path to [type, data, readable]; a path outside its domain does *)
(* not exist.                                                               *)

FileNode(data) == [type |-> "file", data |-> data, readable |-> TRUE]
LockedNode == [type |-> "file", data |-> <<>>, readable |-> FALSE]
DirNode == [type |-> "dir", data |-> <<>>, readable |-> TRUE]

IOError(errno) == [type |-> "IOError", what |-> errno, tname |-> ""]

\* os.path.join(a, b)
path_join(a, b) == a \o <<"/">> \o b

\* os.path.isfile(p), os.path.isdir(p)
isfile(fs, p) == p \in DOMAIN fs /\ fs[p].type = "file"
isdir(fs, p) == p \in DOMAIN fs /\ fs[p].type = "dir"

\* os.listdir(d): the names directly under d
listdir(fs, d) ==
    {Slice(p, Len(d) + 1, Len(p)) :
        p \in {q \in DOMAIN fs :
                 /\ StartsWith(q, d \o <<"/">>)
                 /\ Len(q) > Len(d) + 1
                 /\ Occurrences(Slice(q, Len(d) + 1, Len(q)), <<"/">>) = {}}}

\* load_file(fname): [exc, data]
load_file(fs, fname) ==
    IF fname \notin DOMAIN fs THEN [exc |-> IOError("ENOENT"), data |-> <<>>]
    ELSE IF fs[fname].type = "dir" THEN [exc |-> IOError("EISDIR"), data |-> <<>>]
    ELSE IF ~fs[fname].readable THEN [exc |-> IOError("EACCES"), data |-> <<>>]
    ELSE [exc |-> NoExc, data |-> fs[fname].data]

\* the order of strings: character codes, position by position
CharCode(c) ==
    CASE c = "." -> 46
      [] c \in Digits -> 48 + (CHOOSE n \in 0..9 : <<"0", "1", "2", "3", "4", "5", "6", "7", "8", "9">>[n + 1] = c)
      [] c = "c" -> 99
      [] c = "f" -> 102
      [] c = "g" -> 103
      [] c = "t" -> 116
      [] c = "x" -> 120
      [] OTHER -> 127
RECURSIVE StrLess(_, _)
StrLess(a, b) ==
    IF a = <<>> THEN b # <<>>
    ELSE IF b = <<>> THEN FALSE
    ELSE IF Head(a) = Head(b) THEN StrLess(Tail(a), Tail(b))
    ELSE CharCode(Head(a)) < CharCode(Head(b))

\* sorted(names, reverse=True)
RECURSIVE sorted_reverse(_)
sorted_reverse(names) ==
    IF names = {} THEN <<>>
    ELSE LET top == CHOOSE n \in names : \A m \in names \ {n} : StrLess(m, n)
         IN  <<top>> \o sorted_reverse(names \ {top})

PyFalse == [kind |-> "bool", ref |-> 0, atom |-> <<>>]
PyTrue == [kind |-> "bool", ref |-> 0, atom |-> <<"1">>]

\* the truth value of v
Truthy(h, v) ==
    CASE v.kind = "NoneType" -> FALSE
      [] v.kind = "bool" -> v.atom # <<>>
      [] v.kind = "int" -> v.atom # <<"0">>
      [] v.kind = "dict" -> DOMAIN h[v.ref] # {}
      [] OTHER -> v.atom # <<>>

-----------------------------------------------------------------------------
(* read_conf, read_conf_d, read_conf_with_confd, get_cmdline and            *)
(* merge_base_cfg: each gives [h, val, exc].                                *)

Return(h, v) == [h |-> h, val |-> v, exc |-> NoExc]
Raise(h, e) == [h |-> h, val |-> PyNone, exc |-> e]
\* the return of the value of r, an [h, val]
Returned(r) == [h |-> r.h, val |-> r.val, exc |-> NoExc]

\* read_conf without its test of errno: a missing file raises as well
read_conf_loaded_reraise(h, f) ==
    IF f.exc.type = "none" THEN Returned(load_yaml_or_empty(NewDict(h), f.data))
    ELSE Raise(h, f.exc)
\* read_conf once load_file has returned or raised
read_conf_loaded(h, f) ==
    IF f.exc.type = "none" THEN Returned(load_yaml_or_empty(NewDict(h), f.data))
    ELSE IF f.exc.what = "ENOENT" THEN Returned(NewDict(h))
    ELSE Raise(h, f.exc)
\* read_conf(fname)
read_conf(h, fs, fname) == read_conf_loaded(h, load_file(fs, fname))

CfgSuffix == <<".", "c", "f", "g">>

\* the file names read_conf_d goes through, in its order
conf_d_names(fs, confd) ==
    SelectSeq(SelectSeq(sorted_reverse(listdir(fs, confd)),
                        LAMBDA f : EndsWith(f, CfgSuffix)),
              LAMBDA f : isfile(fs, path_join(confd, f)))

RECURSIVE read_conf_d_loop(_, _, _, _, _, _)
\* the loop goes on with the merged document m
read_conf_d_merged(m, fs, confd, rest, ord) ==
    IF Raised(m) THEN m
    ELSE read_conf_d_loop(m.h, fs, confd, m.val, rest, ord)
\* the fragment c is merged; the loop is left at a fragment without keys
read_conf_d_merge_break(c, fs, confd, cfg, rest, ord) ==
    IF Raised(c) THEN c
    ELSE IF DOMAIN c.h[c.val.ref] = {} THEN Return(c.h, cfg)
    ELSE read_conf_d_merged(mergedict(c.h, cfg, c.val, ord), fs, confd, rest, ord)
\* cfg = mergedict(cfg, c), c being what read_conf gave for the fragment
read_conf_d_merge(c, fs, confd, cfg, rest, ord) ==
    IF Raised(c) THEN c
    ELSE read_conf_d_merged(mergedict(c.h, cfg, c.val, ord), fs, confd, rest, ord)
\* for conf in confs: cfg = mergedict(cfg, read_conf(...))
read_conf_d_loop(h, fs, confd, cfg, confs, ord) ==
    IF confs = <<>> THEN Return(h, cfg)
    ELSE read_conf_d_merge(read_conf(h, fs, path_join(confd, Head(confs))),
                           fs, confd, cfg, Tail(confs), ord)

\* read_conf_d from cfg = {} on
read_conf_d_from(d, fs, confd, ord) ==
    read_conf_d_loop(d.h, fs, confd, d.val, conf_d_names(fs, confd), ord)
\* read_conf_d(confd)
read_conf_d(h, fs, confd, ord) == read_conf_d_from(NewDict(h), fs, confd, ord)

DotD == <<".", "d">>

ConfDTypeError(v) == [type |-> "TypeError", what |-> "conf_d", tname |-> obj_name(v)]

\* the fragment directory read_conf_with_confd settles on: [exc, confd]
conf_d_choice(h, cfg, fs, cfgfile) ==
    IF "conf_d" \in DOMAIN cfg
    THEN IF Truthy(h, cfg["conf_d"])
         THEN IF cfg["conf_d"].kind # "str"
              THEN [exc |-> ConfDTypeError(cfg["conf_d"]), confd |-> PyFalse]
              ELSE [exc |-> NoExc, confd |-> MkStr(Strip(cfg["conf_d"].atom))]
         ELSE [exc |-> NoExc, confd |-> cfg["conf_d"]]
    ELSE IF isdir(fs, cfgfile \o DotD)
         THEN [exc |-> NoExc, confd |-> MkStr(cfgfile \o DotD)]
         ELSE [exc |-> NoExc, confd |-> PyFalse]

\* return mergedict(read_conf_d(confd), cfg), frags being what read_conf_d gave
conf_d_merge(frags, cfg, ord) ==
    IF Raised(frags) THEN frags
    ELSE mergedict(frags.h, frags.val, cfg, ord)
\* read_conf_with_confd once the directory is chosen
conf_d_apply(c, choice, fs, ord) ==
    IF choice.exc.type # "none" THEN Raise(c.h, choice.exc)
    ELSE IF ~Truthy(c.h, choice.confd) \/ ~isdir(fs, choice.confd.atom) THEN c
    ELSE conf_d_merge(read_conf_d(c.h, fs, choice.confd.atom, ord), c.val, ord)
\* read_conf_with_confd once read_conf has given c
conf_d_after_read(c, fs, cfgfile, ord) ==
    IF Raised(c) THEN c
    ELSE conf_d_apply(c, conf_d_choice(c.h, c.h[c.val.ref], fs, cfgfile), fs, ord)
\* read_conf_with_confd(cfgfile)
read_conf_with_confd(h, fs, cfgfile, ord) ==
    conf_d_after_read(read_conf(h, fs, cfgfile), fs, cfgfile, ord)

ProcCmdline == <<"/", "p", "/", "c">>

\* get_cmdline once load_file has returned or raised
get_cmdline_loaded(f) == IF f.exc.type = "none" THEN Strip(f.data) ELSE <<>>
\* get_cmdline(): DEBUG_PROC_CMDLINE if the environment has it, else the
\* stripped content of /proc/cmdline, else the empty string
get_cmdline(environ, fs) ==
    IF environ.debug THEN environ.cmdline
    ELSE get_cmdline_loaded(load_file(fs, ProcCmdline))

\* kerncfg = {}; if kern_contents: kerncfg = load_yaml(kern_contents, default={})
kern_cfg(k0, kern_contents) ==
    IF kern_contents # <<>>
    THEN load_yaml_or_empty(NewDict(k0.h), kern_contents)
    ELSE k0
\* the built-in configuration fills what combined leaves open
base_builtin(combined, cfg_builtin, ord) ==
    IF Raised(combined) THEN combined
    ELSE IF Truthy(combined.h, cfg_builtin)
         THEN mergedict(combined.h, combined.val, cfg_builtin, ord)
         ELSE combined
\* combined = mergedict(kerncfg, syscfg)
base_combine(kerncfg, syscfg, cfg_builtin, ord) ==
    base_builtin(mergedict(kerncfg.h, kerncfg.val, syscfg, ord), cfg_builtin, ord)
\* merge_base_cfg once read_conf_with_confd has given syscfg
base_after_sys(syscfg, kern_contents, cfg_builtin, ord) ==
    IF Raised(syscfg) THEN syscfg
    ELSE base_combine(kern_cfg(NewDict(syscfg.h), kern_contents),
                      syscfg.val, cfg_builtin, ord)
\* merge_base_cfg(cfgfile, cfg_builtin)
merge_base_cfg(h, fs, environ, cfgfile, cfg_builtin, ord) ==
    base_after_sys(read_conf_with_confd(h, fs, cfgfile, ord),
                   read_cc_from_cmdline(get_cmdline(environ, fs)),
                   cfg_builtin, ord)

\* CLOUD_CONFIG, the path get_base_cfg falls back to
CLOUD_CONFIG == <<"c">>

\* get_builtin_cfg handing out CFG_BUILTIN itself instead of a copy
get_builtin_cfg_shared(h, builtin) == [h |-> h, val |-> builtin]
\* get_builtin_cfg(): copy.deepcopy(CFG_BUILTIN), [h, val]
get_builtin_cfg(h, builtin) == Alloc(h, Deref(h, builtin))

\* merge_base_cfg(cfg_path, b), b being what get_builtin_cfg returned
get_base_cfg_with(b, fs, environ, cfg_path, ord) ==
    merge_base_cfg(b.h, fs, environ, cfg_path, b.val, ord)
\* get_base_cfg(cfg_path), builtin being the module's CFG_BUILTIN
get_base_cfg(h, fs, environ, cfg_path, builtin, ord) ==
    get_base_cfg_with(get_builtin_cfg(h, builtin), fs, environ,
                      IF cfg_path = <<>> THEN CLOUD_CONFIG ELSE cfg_path, ord)

\* the dicts that can be reached from v
RECURSIVE Reach(_, _)
Reach(h, v) ==
    IF IsDict(v)
    THEN {v.ref} \cup UNION {Reach(h, h[v.ref][k]) : k \in DOMAIN h[v.ref]}
    ELSE {}

\* what a call gave its caller: the error, or the document as it was then
Snapshot(r) ==
    [exc |-> r.exc, tree |-> IF Raised(r) THEN NoneT ELSE Deref(r.h, r.val)]

-----------------------------------------------------------------------------
(* read_seeded(base, ext, timeout, retries, file_retries)                   *)

FileScheme == <<"f", "i", "l", "e", ":", "/", "/">>
PercentS == <<"%", "s">>
MetaData == <<"m", "e", "t", "a", "-", "d", "a", "t", "a">>
UserData == <<"u", "s", "e", "r", "-", "d", "a", "t", "a">>

\* base % name, base holding one %s
PercentFormat(base, name) ==
    LET at == Find(base, PercentS, 0)
    IN  Slice(base, 0, at) \o name \o Slice(base, at + Len(PercentS), Len(base))

\* uhelp.ok_http_code(status)
ok_http_code(status) == status \in 200..299

\* uhelp.readurl(url, timeout, retries): what the world answers for the
\* locator, [raised, content, status]
readurl(world, url, timeout, retries) ==
    IF Occurrences(url, MetaData) # {} THEN world.meta ELSE world.user

\* read_file_or_url taking every locator for a file: file_retries always
read_file_or_url_always_file(world, url, timeout, retries, file_retries) ==
    LET url1 == IF StartsWith(url, <<"/">>) THEN FileScheme \o url ELSE url
    IN  [req |-> [url |-> url1, timeout |-> timeout, retries |-> file_retries],
         out |-> readurl(world, url1, timeout, file_retries)]
\* read_file_or_url(url, timeout, retries, file_retries):
\* [req, out], req being the call of readurl that was made
read_file_or_url(world, url, timeout, retries, file_retries) ==
    LET url1 == IF StartsWith(url, <<"/">>) THEN FileScheme \o url ELSE url
        retries1 == IF StartsWith(url1, FileScheme) THEN file_retries ELSE retries
    IN  [req |-> [url |-> url1, timeout |-> timeout, retries |-> retries1],
         out |-> readurl(world, url1, timeout, retries1)]

\* the locals of read_seeded before the first fetch
seed_enter(base, ext, retries, file_retries) ==
    LET base1 == IF StartsWith(base, <<"/">>) THEN FileScheme \o base ELSE base
        retries1 == IF StartsWith(base1, FileScheme) THEN file_retries ELSE retries
        formatted == Find(base1, PercentS, 0) >= 0
    IN  [base |-> base1,
         retries |-> retries1,
         ud_url |-> IF formatted THEN PercentFormat(base1, UserData \o ext)
                    ELSE base1 \o UserData \o ext,
         md_url |-> IF formatted THEN PercentFormat(base1, MetaData \o ext)
                    ELSE base1 \o MetaData \o ext,
         md |-> PyNone,
         ud |-> PyNone,
         log |-> <<>>]

\* a fetched string counts whatever its status
seed_usable_any_status(str, status) == str # <<>>
\* md_str and uhelp.ok_http_code(msc)
seed_usable(str, status) == str # <<>> /\ ok_http_code(status)

ENOENT == "OSError:ENOENT"

\* read_optional_seed without its test of errno: every OSError is raised again
read_optional_seed_reraise(h, fill, r) ==
    IF ~Raised(r)
    THEN [h |-> SetItem(SetItem(h, fill.ref, "user-data", r.val.ud),
                        fill.ref, "meta-data", r.val.md),
          val |-> PyTrue, exc |-> NoExc]
    ELSE [h |-> h, val |-> PyNone, exc |-> r.exc]
\* read_optional_seed(fill, base, ext, timeout) once read_seeded has returned
\* or raised r: [h, val, exc]
read_optional_seed(h, fill, r) ==
    IF ~Raised(r)
    THEN [h |-> SetItem(SetItem(h, fill.ref, "user-data", r.val.ud),
                        fill.ref, "meta-data", r.val.md),
          val |-> PyTrue, exc |-> NoExc]
    ELSE IF r.exc.type = ENOENT THEN [h |-> h, val |-> PyFalse, exc |-> NoExc]
    ELSE [h |-> h, val |-> PyNone, exc |-> r.exc]

\* what the fetch capability can answer
FetchOk(content) == [raised |-> "none", content |-> content, status |-> 200]
FetchStatus(content, status) == [raised |-> "none", content |-> content, status |-> status]
FetchRaises(e) == [raised |-> e, content |-> <<>>, status |-> 0]
FetchError(e) == [type |-> e, what |-> "fetch", tname |-> ""]
DocX1 == <<"x", ":", " ", "1">>
DocBroken == <<"[">>
MetaAnswers ==
    {FetchOk(DocX1), FetchOk(DocBroken), FetchOk(<<>>), FetchStatus(DocX1, 404),
     FetchRaises(ENOENT), FetchRaises("OSError:EACCES"), FetchRaises("IOError")}
UserAnswers ==
    {FetchOk(<<"u">>), FetchOk(<<>>), FetchStatus(<<"u">>, 500),
     FetchRaises(ENOENT), FetchRaises("OSError:EACCES"), FetchRaises("IOError")}
SeedBases ==
    {<<"/", "s", "/">>,
     FileScheme \o <<"/", "s", "/">>,
     <<"h", "t", "t", "p", ":", "/", "/", "h", "/">>,
     <<"h", "t", "t", "p", ":", "/", "/", "h", "/">> \o PercentS \o <<"?", "q">>,
     PercentS \o <<"@", "h">>}
\* the dicts read_optional_seed is given to fill
Fills == {DictT(NoItems), DictT([k \in {"x"} |-> IntT(<<"1">>)])}
SeedExts == {<<>>, <<".", "r", "a", "w">>}
DefaultTimeout == 5
DefaultRetries == 10
DefaultFileRetries == 0

-----------------------------------------------------------------------------
(* The files, directories and command lines the configuration is resolved   *)
(* from.                                                                    *)

CfgFile == <<"c">>
AltDir == <<"a">>

TextY2 == <<"y", ":", " ", "2">>
TextX2 == <<"x", ":", " ", "2">>
TextZ3 == <<"z", ":", " ", "3">>
TextList == <<"-", " ", "1">>
TextNX1 == <<"n", ":", " ", "{", "x", ":", " ", "1", "}">>
TextNY2 == <<"n", ":", " ", "{", "y", ":", " ", "2", "}">>
ConfDKey == <<"c", "o", "n", "f", "_", "d", ":">>
\* y: 2 and conf_d: a
TextConfDAlt == TextY2 \o Newline \o ConfDKey \o <<" ", "a">>
\* conf_d: 5, conf_d: [a], conf_d: (nothing), conf_d: 0
TextConfDInt == ConfDKey \o <<" ", "5">>
TextConfDList == TextY2 \o Newline \o ConfDKey \o <<" ", "[", "a", "]">>
TextConfDNone == TextY2 \o Newline \o ConfDKey
TextConfDZero == ConfDKey \o <<" ", "0">>

SysNodes ==
    {FileNode(t) : t \in {TextY2, TextX2, TextNY2, DocBroken, TextList, TextConfDAlt,
                          TextConfDInt, TextConfDList, TextConfDNone, TextConfDZero}}
        \cup {LockedNode, DirNode}

FragNames ==
    {<<"1">> \o CfgSuffix, <<"1", "0">> \o CfgSuffix, <<"2">> \o CfgSuffix,
     <<"3", ".", "t", "x", "t">>}
FragTexts == {DocX1, TextZ3, TextNX1, TextNY2, DocBroken, TextList}
FragNodes == {FileNode(t) : t \in FragTexts} \cup {LockedNode, DirNode}

\* the directory d holding the entries of dir (a function from names to nodes)
DirAt(d, dir) ==
    [p \in {d} \cup {path_join(d, n) : n \in DOMAIN dir} |->
        IF p = d THEN DirNode ELSE dir[Slice(p, Len(d) + 1, Len(p))]]
Absent == [p \in {} |-> DirNode]
\* two file systems over different paths, as one
Both(f, g) == [p \in DOMAIN f \cup DOMAIN g |-> IF p \in DOMAIN f THEN f[p] ELSE g[p]]

MaxFrags == 2
FragDirs ==
    UNION {[S -> FragNodes] : S \in {T \in SUBSET FragNames : Cardinality(T) <= MaxFrags}}
OneFragDirs == UNION {[S -> FragNodes] : S \in {{}, {<<"1">> \o CfgSuffix}}}

\* the fragment directory of CfgFile: none, or one of at most one fragment
ConfdChoices == {Absent} \cup {DirAt(CfgFile \o DotD, dir) : dir \in OneFragDirs}
\* the directory a conf_d entry names: none, or one holding a fragment of z
AltChoices == {Absent, DirAt(AltDir, [n \in {<<"5">> \o CfgSuffix} |-> FileNode(TextZ3)])}
SysChoices == {Absent} \cup {[p \in {CfgFile} |-> n] : n \in SysNodes}

\* where the kernel command line comes from
CmdlineX9 == <<"r", "o", " ">> \o tag_begin \o <<" ", "x", ":", " ", "9", " ">> \o tag_end
CmdlineBroken == tag_begin \o <<" ", "[", " ">> \o tag_end
CmdlineList == tag_begin \o <<" ", "-", " ", "1">>
CmdlinePlain == <<"r", "o", " ", "q">>
CmdlineN == tag_begin \o <<"n", ":", " ", "{", "y", ":", " ", "3", "}">>
KernelCmdlines == {CmdlineX9, CmdlineBroken, CmdlineList, CmdlinePlain, CmdlineN}
NoDebug == [debug |-> FALSE, cmdline |-> <<>>]
\* [environ, fs]
CmdlineSources ==
    {[environ |-> [debug |-> TRUE, cmdline |-> c], fs |-> Absent] : c \in KernelCmdlines}
        \cup {[environ |-> NoDebug, fs |-> [p \in {ProcCmdline} |-> FileNode(c \o Newline)]] :
                c \in {CmdlineX9, CmdlineN}}
        \cup {[environ |-> NoDebug, fs |-> Absent]}

BuiltinXY == DictT([k \in {"x", "y"} |-> IntT(<<"1">>)])
BuiltinN == DictT([k \in {"n"} |-> DictT([j \in {"x"} |-> IntT(<<"1">>)])])
Builtins == {NoneT, BuiltinXY, BuiltinN}

\* the sources get_base_cfg is called on twice
BaseSysChoices ==
    {Absent} \cup {[p \in {CfgFile} |-> FileNode(t)] : t \in {TextY2, TextNY2, DocBroken}}
BaseConfdChoices ==
    {Absent} \cup {DirAt(CfgFile \o DotD, [n \in {<<"1">> \o CfgSuffix} |-> FileNode(t)]) :
                     t \in {TextZ3, TextNX1}}
BaseCmdlines ==
    {[debug |-> TRUE, cmdline |-> c] : c \in {CmdlineX9, CmdlineN, CmdlinePlain}}
CfgBuiltins == {BuiltinXY, BuiltinN}
\* what the caller stores into a result it holds
MaxWrites == 1
WriteKeys == {"x", "n"}
WriteValue == [kind |-> "int", ref |-> 0, atom |-> <<"7">>]

-----------------------------------------------------------------------------
Init ==
    /\ pc = "idle"
    /\ op = "none"
    /\ heap0 = <<>>
    /\ heap = <<>>
    /\ arg = <<>>
    /\ loc = <<>>
    /\ ret = [val |-> PyNone, exc |-> NoExc]

\* the call of opname ends with r, an [h, val, exc]
Done(opname, h0, a, r) ==
    /\ op' = opname
    /\ heap0' = h0
    /\ arg' = a
    /\ heap' = r.h
    /\ ret' = [val |-> r.val, exc |-> r.exc]
    /\ loc' = <<>>
    /\ pc' = "done"

MergedictOn(h, src, cand, ord) ==
    Done("mergedict", h, [src |-> src, cand |-> cand, ord |-> ord],
         mergedict(h, src, cand, ord))
MergedictAfter(s, b, ord) == MergedictOn(Alloc(s.h, b).h, s.val, Alloc(s.h, b).val, ord)
\* a call of mergedict(src, cand) on two separately built operands
CallMergedict ==
    /\ pc = "idle"
    /\ \E a \in MergeOperands, b \in MergeOperands, ord \in Orders :
         MergedictAfter(Alloc(<<>>, a), b, ord)

\* cand["y"] = src["x"]: the two operands come to share a mapping
MergedictSharingOn(h, src, cand, ord) ==
    Done("mergedict_shared", h, [src |-> src, cand |-> cand, ord |-> ord],
         mergedict(h, src, cand, ord))
MergedictSharing(s, c, ord) ==
    MergedictSharingOn(SetItem(c.h, c.val.ref, "y", c.h[s.val.ref]["x"]),
                       s.val, c.val, ord)
MergedictSharingAfter(s, b, ord) == MergedictSharing(s, Alloc(s.h, b), ord)
\* a call of mergedict(src, cand) on operands that share a nested mapping:
\* src is {x: d}, cand is {x: e, y: d}, d being one object
CallMergedictShared ==
    /\ pc = "idle"
    /\ \E d \in Dicts1, e \in Dicts1, ord \in Orders :
         MergedictSharingAfter(Alloc(<<>>, DictT([k \in {"x"} |-> d])),
                               DictT([k \in {"x"} |-> e]), ord)

ReadConfDOn(fs, confd, ord) ==
    Done("read_conf_d", <<>>, [fs |-> fs, confd |-> confd, ord |-> ord],
         read_conf_d(<<>>, fs, confd, ord))
\* a call of read_conf_d(confd) on a directory that exists
CallReadConfD ==
    /\ pc = "idle"
    /\ \E dir \in FragDirs, ord \in Orders :
         ReadConfDOn(DirAt(CfgFile \o DotD, dir), CfgFile \o DotD, ord)

ReadConfWithConfdOn(fs, ord) ==
    Done("read_conf_with_confd", <<>>, [fs |-> fs, cfgfile |-> CfgFile, ord |-> ord],
         read_conf_with_confd(<<>>, fs, CfgFile, ord))
\* a call of read_conf_with_confd(cfgfile)
CallReadConfWithConfd ==
    /\ pc = "idle"
    /\ \E sys \in SysChoices, confd \in ConfdChoices, alt \in AltChoices, ord \in Orders :
         ReadConfWithConfdOn(Both(sys, Both(confd, alt)), ord)

MergeBaseCfgOn(b, fs, environ, ord) ==
    Done("merge_base_cfg", b.h,
         [fs |-> fs, environ |-> environ, cfgfile |-> CfgFile,
          cfg_builtin |-> b.val, ord |-> ord],
         merge_base_cfg(b.h, fs, environ, CfgFile, b.val, ord))
\* a call of merge_base_cfg(cfgfile, cfg_builtin)
CallMergeBaseCfg ==
    /\ pc = "idle"
    /\ \E sys \in SysChoices, confd \in ConfdChoices, alt \in AltChoices,
          src \in CmdlineSources, builtin \in Builtins, ord \in Orders :
         MergeBaseCfgOn(Alloc(<<>>, builtin), Both(sys, Both(confd, Both(alt, src.fs))),
                        src.environ, ord)

\* read_cc_from_cmdline(cmdline) is entered
CallReadCc ==
    /\ pc = "idle"
    /\ \E cmdline \in Cmdlines :
         /\ arg' = [cmdline |-> cmdline]
         /\ loc' = cc_enter(cmdline)
    /\ op' = "read_cc_from_cmdline"
    /\ pc' = "cc_loop"
    /\ UNCHANGED <<heap0, heap, ret>>

\* while begin >= 0: one pass
CcPass ==
    /\ pc = "cc_loop"
    /\ loc.begin >= 0
    /\ loc' = cc_pass(arg.cmdline, loc)
    /\ UNCHANGED <<pc, op, heap0, heap, arg, ret>>

\* the loop is left and the joined tokens are returned
CcReturn ==
    /\ pc = "cc_loop"
    /\ loc.begin < 0
    /\ ret' = [val |-> MkStr(cc_result(loc)), exc |-> NoExc]
    /\ pc' = "done"
    /\ UNCHANGED <<op, heap0, heap, arg, loc>>

\* read_seeded(base, ext, timeout, retries, file_retries) is entered; the
\* locators and the retry budget are worked out
CallReadSeeded ==
    /\ pc = "idle"
    /\ \E base \in SeedBases, ext \in SeedExts,
          retries \in {DefaultRetries, 3}, file_retries \in {DefaultFileRetries, 2},
          meta \in MetaAnswers, user \in UserAnswers :
         /\ arg' = [base |-> base, ext |-> ext, timeout |-> DefaultTimeout,
                    retries |-> retries, file_retries |-> file_retries,
                    world |-> [meta |-> meta, user |-> user]]
         /\ loc' = seed_enter(base, ext, retries, file_retries)
    /\ op' = "read_seeded"
    /\ pc' = "seed_md"
    /\ UNCHANGED <<heap0, heap, ret>>

\* where read_seeded returns or raises to
SeedBack == IF op = "read_seeded" THEN "done" ELSE "seed_back"

\* the fetch of md_url, and load_yaml on what came back
SeedFetchMd ==
    /\ pc = "seed_md"
    /\ LET f == read_file_or_url(arg.world, loc.md_url, arg.timeout,
                                 loc.retries, arg.file_retries)
           d == NewDict(heap)
           y == load_yaml(d.h, f.out.content, d.val)
       IN  IF f.out.raised # "none"
           THEN /\ loc' = [loc EXCEPT !.log = Append(@, f.req)]
                /\ ret' = [val |-> PyNone, exc |-> FetchError(f.out.raised)]
                /\ pc' = SeedBack
                /\ heap' = heap
           ELSE IF seed_usable(f.out.content, f.out.status)
           THEN /\ loc' = [loc EXCEPT !.log = Append(@, f.req), !.md = y.val]
                /\ heap' = y.h
                /\ pc' = "seed_ud"
                /\ ret' = ret
           ELSE /\ loc' = [loc EXCEPT !.log = Append(@, f.req)]
                /\ heap' = heap
                /\ pc' = "seed_ud"
                /\ ret' = ret
    /\ UNCHANGED <<op, heap0, arg>>

\* the fetch of ud_url, and the return of (md, ud)
SeedFetchUd ==
    /\ pc = "seed_ud"
    /\ LET f == read_file_or_url(arg.world, loc.ud_url, arg.timeout,
                                 loc.retries, arg.file_retries)
       IN  IF f.out.raised # "none"
           THEN /\ loc' = [loc EXCEPT !.log = Append(@, f.req)]
                /\ ret' = [val |-> PyNone, exc |-> FetchError(f.out.raised)]
           ELSE LET ud == IF seed_usable(f.out.content, f.out.status)
                          THEN MkStr(f.out.content) ELSE PyNone
                IN  /\ loc' = [loc EXCEPT !.log = Append(@, f.req), !.ud = ud]
                    /\ ret' = [val |-> [md |-> loc.md, ud |-> ud], exc |-> NoExc]
    /\ pc' = SeedBack
    /\ UNCHANGED <<op, heap0, heap, arg>>

OptionalSeedOn(f, base, ext, meta, user) ==
    /\ arg' = [fill |-> f.val, base |-> base, ext |-> ext, timeout |-> DefaultTimeout,
               retries |-> DefaultRetries, file_retries |-> DefaultFileRetries,
               world |-> [meta |-> meta, user |-> user]]
    /\ loc' = seed_enter(base, ext, DefaultRetries, DefaultFileRetries)
    /\ heap0' = f.h
    /\ heap' = f.h
\* read_optional_seed(fill, base, ext) is entered and calls
\* read_seeded(base, ext, timeout)
CallReadOptionalSeed ==
    /\ pc = "idle"
    /\ \E fill \in Fills, base \in SeedBases, ext \in SeedExts,
          meta \in MetaAnswers, user \in UserAnswers :
         OptionalSeedOn(Alloc(<<>>, fill), base, ext, meta, user)
    /\ op' = "read_optional_seed"
    /\ pc' = "seed_md"
    /\ ret' = ret

OptionalSeedDone(r) ==
    /\ heap' = r.h
    /\ ret' = [val |-> r.val, exc |-> r.exc]
\* read_seeded is back in read_optional_seed: fill is written and True
\* returned, or the exception is handled
OptionalSeedReturn ==
    /\ pc = "seed_back"
    /\ OptionalSeedDone(read_optional_seed(heap, arg.fill, ret))
    /\ pc' = "done"
    /\ UNCHANGED <<op, heap0, arg, loc>>

GetBaseCfgOn(g, fs, environ, cfg_path, ord, r) ==
    /\ arg' = [builtin |-> g.val, fs |-> fs, environ |-> environ,
               cfg_path |-> cfg_path, ord |-> ord]
    /\ heap0' = g.h
    /\ heap' = r.h
    /\ ret' = [val |-> r.val, exc |-> r.exc]
    /\ loc' = [builtin |-> Deref(g.h, g.val), first |-> Snapshot(r),
               second |-> Snapshot(r), held |-> r.val, writes |-> 0]
GetBaseCfgFirst(g, fs, environ, cfg_path, ord) ==
    GetBaseCfgOn(g, fs, environ, cfg_path, ord,
                 get_base_cfg(g.h, fs, environ, cfg_path, g.val, ord))
\* a first call of get_base_cfg(cfg_path), CFG_BUILTIN being in the heap
CallGetBaseCfg ==
    /\ pc = "idle"
    /\ \E builtin \in CfgBuiltins, sys \in BaseSysChoices, confd \in BaseConfdChoices,
          environ \in BaseCmdlines, cfg_path \in {<<>>, CfgFile}, ord \in Orders :
         GetBaseCfgFirst(Alloc(<<>>, builtin), Both(sys, confd), environ, cfg_path, ord)
    /\ op' = "get_base_cfg"
    /\ pc' = "base_held"

\* the caller stores into the document it was returned, at any level
CallerWrites ==
    /\ pc = "base_held"
    /\ loc.writes < MaxWrites
    /\ \E id \in Reach(heap, ret.val), k \in WriteKeys :
         heap' = SetItem(heap, id, k, WriteValue)
    /\ loc' = [loc EXCEPT !.writes = @ + 1]
    /\ UNCHANGED <<pc, op, heap0, arg, ret>>

GetBaseCfgSecond(r) ==
    /\ heap' = r.h
    /\ ret' = [val |-> r.val, exc |-> r.exc]
    /\ loc' = [loc EXCEPT !.second = Snapshot(r)]
\* the second call of get_base_cfg(cfg_path), on the same sources
GetBaseCfgAgain ==
    /\ pc = "base_held"
    /\ \E ord \in Orders :
         GetBaseCfgSecond(get_base_cfg(heap, arg.fs, arg.environ, arg.cfg_path,
                                       arg.builtin, ord))
    /\ pc' = "done"
    /\ UNCHANGED <<op, heap0, arg>>

\* the caller drops the result; the next call starts afresh
Reset ==
    /\ pc = "done"
    /\ pc' = "idle"
    /\ op' = "none"
    /\ heap0' = <<>>
    /\ heap' = <<>>
    /\ arg' = <<>>
    /\ loc' = <<>>
    /\ ret' = [val |-> PyNone, exc |-> NoExc]

Next ==
    \/ CallMergedict
    \/ CallMergedictShared
    \/ CallReadConfD
    \/ CallReadConfWithConfd
    \/ CallMergeBaseCfg
    \/ CallReadCc
    \/ CcPass
    \/ CcReturn
    \/ CallReadSeeded
    \/ CallReadOptionalSeed
    \/ SeedFetchMd
    \/ SeedFetchUd
    \/ OptionalSeedReturn
    \/ CallGetBaseCfg
    \/ CallerWrites
    \/ GetBaseCfgAgain
    \/ Reset

Spec == Init /\ [][Next]_vars

\* a call that has entered the scan loop goes on with it: the interpreter
\* runs the next pass, or leaves the loop and returns
FairSpec == Spec /\ WF_vars(CcPass) /\ WF_vars(CcReturn)

-----------------------------------------------------------------------------
(* Properties of mergedict.                                                 *)

MergeDone == pc = "done" /\ op = "mergedict"
SrcT0 == Deref(heap0, arg.src)
CandT0 == Deref(heap0, arg.cand)
SrcT == Deref(heap, arg.src)
CandT == Deref(heap, arg.cand)
RetT == Deref(heap, ret.val)
BothKeys(a, b) == TKeys(a) \cap TKeys(b)

\* r is a with the gaps filled from b, at every level where both are dicts
RECURSIVE IsMergeOf(_, _, _)
IsMergeOf(r, a, b) ==
    /\ r.kind = "dict"
    /\ TKeys(r) = TKeys(a) \cup TKeys(b)
    /\ \A k \in TKeys(r) :
         IF k \notin TKeys(a) THEN r.items[k] = b.items[k]
         ELSE IF k \notin TKeys(b) THEN r.items[k] = a.items[k]
         ELSE (a.items[k].kind = "dict" /\ b.items[k].kind = "dict")
                 => IsMergeOf(r.items[k], a.items[k], b.items[k])

\* C1: whenever mergedict(A, B) returns for two mappings, the result has
\* exactly the keys of A and of B, a key of only one side has that side's
\* value, and a key that is a mapping on both sides has the recursive merge.
C1_MergeResult ==
    (MergeDone /\ ~Raised(ret) /\ SrcT0.kind = "dict" /\ CandT0.kind = "dict")
        => IsMergeOf(RetT, SrcT0, CandT0)

\* a returning merge with a key of each side only and a nested merge that
\* adds a key to the nested target
C1_Witness ==
    /\ MergeDone /\ ~Raised(ret)
    /\ SrcT0.kind = "dict" /\ CandT0.kind = "dict"
    /\ TKeys(CandT0) \ TKeys(SrcT0) # {}
    /\ \E k \in BothKeys(SrcT0, CandT0) :
         /\ SrcT0.items[k].kind = "dict" /\ CandT0.items[k].kind = "dict"
         /\ TKeys(CandT0.items[k]) \ TKeys(SrcT0.items[k]) # {}
         /\ TKeys(SrcT0.items[k]) \ TKeys(CandT0.items[k]) # {}

\* C2: when a key is in both operands and neither value is a mapping, the
\* merge returns and the key keeps the target's value.
C2_TargetWinsOnScalars ==
    (/\ MergeDone
     /\ SrcT0.kind = "dict" /\ CandT0.kind = "dict"
     /\ \E k \in BothKeys(SrcT0, CandT0) :
          SrcT0.items[k].kind # "dict" /\ CandT0.items[k].kind # "dict")
        => /\ ~Raised(ret)
           /\ \A k \in BothKeys(SrcT0, CandT0) :
                (SrcT0.items[k].kind # "dict" /\ CandT0.items[k].kind # "dict")
                    => RetT.items[k] = SrcT0.items[k]

\* the pairs of operands mergedict can be entered with, from (a, b) down
RECURSIVE MergePairs(_, _)
MergePairs(a, b) ==
    {<<a, b>>} \cup
    (IF a.kind = "dict" /\ b.kind = "dict"
     THEN UNION {MergePairs(a.items[k], b.items[k]) : k \in BothKeys(a, b)}
     ELSE {})
OneSided(p) == (p[1].kind = "dict") # (p[2].kind = "dict")

\* C3: when exactly one operand is a mapping, at the top level or at a key
\* both sides have, mergedict raises a TypeError that names a non-mapping
\* operand and its type; it does not return, the candidate is as it was and
\* a target value facing a mismatch is not overwritten.
C3_MismatchRaises ==
    (MergeDone /\ \E p \in MergePairs(SrcT0, CandT0) : OneSided(p))
        => /\ ret.exc.type = "TypeError"
           /\ \E p \in MergePairs(SrcT0, CandT0) :
                \/ /\ ret.exc.what = "source"
                   /\ p[1].kind # "dict" /\ ret.exc.tname = p[1].kind
                \/ /\ ret.exc.what = "candidate"
                   /\ p[1].kind = "dict"
                   /\ p[2].kind # "dict" /\ ret.exc.tname = p[2].kind
           /\ OneSided(<<SrcT0, CandT0>>) =>
                ret.exc.what = (IF SrcT0.kind = "dict" THEN "candidate" ELSE "source")
           /\ CandT = CandT0
           /\ (SrcT0.kind = "dict" /\ CandT0.kind = "dict") =>
                \A k \in BothKeys(SrcT0, CandT0) :
                    OneSided(<<SrcT0.items[k], CandT0.items[k]>>)
                        => SrcT.items[k] = SrcT0.items[k]

\* a mismatch at a nested key, the candidate's side being the scalar, raised
\* after another key had been copied into the target
C3_Witness ==
    /\ MergeDone /\ Raised(ret)
    /\ ret.exc.what = "candidate"
    /\ SrcT0.kind = "dict" /\ CandT0.kind = "dict"
    /\ \E k \in BothKeys(SrcT0, CandT0) :
         SrcT0.items[k].kind = "dict" /\ CandT0.items[k].kind # "dict"
    /\ SrcT # SrcT0

-----------------------------------------------------------------------------
(* Properties of read_cc_from_cmdline.                                      *)

CcDone == pc = "done" /\ op = "read_cc_from_cmdline"

\* the command line holds one cc: and, after it, one end_cc
OneClosedBlock(c) ==
    /\ Cardinality(Occurrences(c, tag_begin)) = 1
    /\ Cardinality(Occurrences(c, tag_end)) = 1
    /\ Min(Occurrences(c, tag_end)) >= Min(Occurrences(c, tag_begin)) + begin_l
\* what lies between the two
BlockBody(c) ==
    Slice(c, Min(Occurrences(c, tag_begin)) + begin_l, Min(Occurrences(c, tag_end)))
\* s is t without the whitespace t starts with
IsLeftTrimOf(s, t) ==
    \E i \in 0..Len(t) :
        /\ \A j \in 1..i : t[j] \in Whitespace
        /\ i < Len(t) => t[i + 1] \notin Whitespace
        /\ s = Slice(t, i, Len(t))

\* C8 as stated: the body of a single closed block comes back trimmed at
\* both ends and with every backslash-n decoded.
C8_TrimmedBothEnds ==
    (CcDone /\ OneClosedBlock(arg.cmdline))
        => ret.val.atom = Replace(Strip(BlockBody(arg.cmdline)), Backslash_n, Newline)

\* C8, amended: the body of a single closed block comes back without the
\* sentinels, without the whitespace it starts with, with every backslash-n
\* decoded, and with the whitespace before end_cc kept.
C8_TrimmedLeft ==
    (CcDone /\ OneClosedBlock(arg.cmdline))
        => /\ \E s \in {Slice(BlockBody(arg.cmdline), i, Len(BlockBody(arg.cmdline))) :
                            i \in 0..Len(BlockBody(arg.cmdline))} :
                /\ IsLeftTrimOf(s, BlockBody(arg.cmdline))
                /\ ret.val.atom = Replace(s, Backslash_n, Newline)
           /\ Occurrences(ret.val.atom, Backslash_n) = {}
           /\ arg.cmdline = CmdlineEscaped =>
                ret.val.atom = <<"a", ":", " ", "1", "\n", "b", ":", " ", "2", " ">>

\* a closed block whose body has whitespace at both ends and an escape
C8_Witness ==
    /\ CcDone /\ OneClosedBlock(arg.cmdline)
    /\ Len(BlockBody(arg.cmdline)) > 2
    /\ Head(BlockBody(arg.cmdline)) \in Whitespace
    /\ BlockBody(arg.cmdline)[Len(BlockBody(arg.cmdline))] \in Whitespace
    /\ Occurrences(BlockBody(arg.cmdline), Backslash_n) # {}
    /\ ret.val.atom # <<>>

\* the first cc: from position p on, or -1
NextBegin(c, p) ==
    IF \E i \in Occurrences(c, tag_begin) : i >= p
    THEN Min({i \in Occurrences(c, tag_begin) : i >= p})
    ELSE -1

\* C9: each pass of the scan appends, after the tokens collected so far, the
\* decoded body of the block at begin; that block starts at or after the
\* end of the previous end_cc; the next begin is the first cc: at or after
\* the end of this block's end_cc; what is returned is the tokens joined by
\* single newlines.
C9_BlocksInOrder ==
    /\ [][(pc = "cc_loop" /\ pc' = "cc_loop") =>
            /\ loc'.end >= loc.begin + begin_l
            /\ loc.end >= 0 => loc.begin >= loc.end + end_l
            /\ Len(loc'.tokens) = Len(loc.tokens) + 1
            /\ SubSeq(loc'.tokens, 1, Len(loc.tokens)) = loc.tokens
            /\ \E s \in {Slice(arg.cmdline, i, loc'.end) : i \in 0..loc'.end} :
                 /\ IsLeftTrimOf(s, Slice(arg.cmdline, loc.begin + begin_l, loc'.end))
                 /\ loc'.tokens[Len(loc'.tokens)] = Replace(s, Backslash_n, Newline)
            /\ loc'.begin = NextBegin(arg.cmdline, loc'.end + end_l)
            /\ Occurrences(Slice(arg.cmdline, loc.begin + begin_l, loc'.end), tag_end) = {}
         ]_vars
    /\ [][(pc = "cc_loop" /\ pc' = "done") =>
            /\ Len(ret'.val.atom) =
                 (IF loc.tokens = <<>> THEN 0
                  ELSE Len(Concat(loc.tokens)) + Len(loc.tokens) - 1)
            /\ \A i \in 1..Len(loc.tokens) :
                 LET at == Len(Concat(SubSeq(loc.tokens, 1, i - 1))) + i - 1
                 IN  /\ Slice(ret'.val.atom, at, at + Len(loc.tokens[i])) = loc.tokens[i]
                     /\ i > 1 => ret'.val.atom[at] = "\n"
         ]_vars

\* two closed or unclosed blocks with different bodies were returned
C9_Witness ==
    /\ CcDone
    /\ Len(loc.tokens) >= 2
    /\ loc.tokens[1] # <<>> /\ loc.tokens[2] # <<>>
    /\ loc.tokens[1] # loc.tokens[2]
    /\ ret.val.atom = loc.tokens[1] \o Newline \o loc.tokens[2]

-----------------------------------------------------------------------------
(* Properties of read_seeded.                                               *)

SeedRunning == op = "read_seeded"
SeedDone == pc = "done" /\ op = "read_seeded"
FetchFailed(a) == a.raised = "none" /\ (a.content = <<>> \/ a.status \notin 200..299)
FetchGood(a) == a.raised = "none" /\ a.content # <<>> /\ a.status \in 200..299
FetchBroke(a) == a.raised \notin {"none", ENOENT}
FetchFailedOrBroke(a) == (a.raised = "none" /\ a.status \notin 200..299) \/ FetchBroke(a)

\* C10 as stated: metadata is fetched before user-data, and a fetch that
\* fails, by its status or by an I/O error other than absence, leaves the
\* other locator fetched and its value returned.
C10_FailureIsLocal ==
    /\ (SeedRunning /\ Len(loc.log) >= 1) => loc.log[1].url = loc.md_url
    /\ (SeedDone /\ FetchFailedOrBroke(arg.world.meta) /\ FetchGood(arg.world.user))
         => /\ ~Raised(ret)
            /\ Len(loc.log) = 2
            /\ ret.val.md = PyNone
            /\ ret.val.ud = MkStr(arg.world.user.content)
    /\ (SeedDone /\ FetchFailedOrBroke(arg.world.user) /\ FetchGood(arg.world.meta))
         => /\ ~Raised(ret)
            /\ IsDict(ret.val.md)
            /\ ret.val.ud = PyNone

\* C10, amended: metadata is fetched before user-data; a fetch answered
\* with a non-success status or with no content leaves that value absent
\* and the other locator fetched and returned; a fetch that raises ends
\* read_seeded with that error, and when it is the metadata fetch, user-data
\* is not fetched at all.
C10_StatusFailureIsLocal ==
    /\ SeedRunning =>
         /\ Len(loc.log) <= 2
         /\ Len(loc.log) >= 1 => loc.log[1].url = loc.md_url
         /\ Len(loc.log) = 2 => loc.log[2].url = loc.ud_url
         /\ loc.md_url # loc.ud_url
    /\ (SeedDone /\ arg.world.meta.raised = "none" /\ arg.world.user.raised = "none")
         => /\ ~Raised(ret)
            /\ Len(loc.log) = 2
            /\ FetchFailed(arg.world.meta) <=> ret.val.md = PyNone
            /\ FetchGood(arg.world.meta) <=> IsDict(ret.val.md)
            /\ FetchFailed(arg.world.user) <=> ret.val.ud = PyNone
            /\ FetchGood(arg.world.user) <=> ret.val.ud = MkStr(arg.world.user.content)
    /\ (SeedDone /\ arg.world.meta.raised # "none")
         => /\ ret.exc.type = arg.world.meta.raised
            /\ Len(loc.log) = 1
    /\ (SeedDone /\ arg.world.meta.raised = "none" /\ arg.world.user.raised # "none")
         => /\ ret.exc.type = arg.world.user.raised
            /\ Len(loc.log) = 2

\* the metadata fetch came back with a bad status and user-data was returned
C10_Witness ==
    /\ SeedDone /\ ~Raised(ret)
    /\ arg.world.meta.raised = "none" /\ arg.world.meta.content # <<>>
    /\ ~ok_http_code(arg.world.meta.status)
    /\ ret.val.md = PyNone
    /\ ret.val.ud # PyNone
    /\ Len(loc.log) = 2

-----------------------------------------------------------------------------
(* Properties of read_optional_seed.                                        *)

OptDone == pc = "done" /\ op = "read_optional_seed"
\* the error read_seeded ends with: that of the first fetch that raises
SeedRaised ==
    IF arg.world.meta.raised # "none" THEN arg.world.meta.raised
    ELSE arg.world.user.raised
FillBefore == Deref(heap0, arg.fill)
FillAfter == Deref(heap, arg.fill)
\* the value fill holds for an answer of the fetch capability
Retrieved(a, t) == IF FetchGood(a) THEN t ELSE NoneT

\* C11 as stated: read_optional_seed returns True only when both metadata
\* and user-data were retrieved, reports failure when one of the two is
\* present and the other absent, and answers a source that does not exist
\* with False instead of an error.
C11_SuccessOnlyWithBoth ==
    /\ (OptDone /\ ret.val = PyTrue)
         => FetchGood(arg.world.meta) /\ FetchGood(arg.world.user)
    /\ (OptDone /\ FetchGood(arg.world.meta) /\ ~FetchGood(arg.world.user)
                /\ ~FetchBroke(arg.world.user))
         => ~Raised(ret) /\ ret.val = PyFalse
    /\ (OptDone /\ FetchGood(arg.world.user) /\ ~FetchGood(arg.world.meta)
                /\ ~FetchBroke(arg.world.meta))
         => ~Raised(ret) /\ ret.val = PyFalse
    /\ (OptDone /\ SeedRaised = ENOENT) => ~Raised(ret) /\ ret.val = PyFalse

\* C11, amended: read_optional_seed returns True whenever read_seeded
\* returns, with fill holding what read_seeded gave, None for a value that
\* was not retrieved; it returns False and leaves fill alone when
\* read_seeded raises an OSError with errno ENOENT; every other error of
\* read_seeded is raised to the caller, fill left alone.
C11_SuccessIffReturned ==
    /\ (OptDone /\ SeedRaised = "none")
         => /\ ~Raised(ret) /\ ret.val = PyTrue
            /\ TKeys(FillAfter) = TKeys(FillBefore) \cup {"user-data", "meta-data"}
            /\ \A k \in TKeys(FillBefore) : FillAfter.items[k] = FillBefore.items[k]
            /\ FillAfter.items["user-data"]
                 = Retrieved(arg.world.user, StrT(arg.world.user.content))
            /\ FillAfter.items["meta-data"].kind
                 = Retrieved(arg.world.meta, DictT(NoItems)).kind
    /\ (OptDone /\ SeedRaised = ENOENT)
         => ~Raised(ret) /\ ret.val = PyFalse /\ FillAfter = FillBefore
    /\ (OptDone /\ SeedRaised \notin {"none", ENOENT})
         => ret.exc.type = SeedRaised /\ FillAfter = FillBefore

\* metadata was retrieved, user-data came back empty or with a bad status,
\* and read_optional_seed returned True with user-data None in fill
C11_Witness ==
    /\ OptDone /\ ret.val = PyTrue
    /\ FetchGood(arg.world.meta) /\ FetchFailed(arg.world.user)
    /\ FillAfter.items["meta-data"].kind = "dict"
    /\ FillAfter.items["user-data"] = NoneT

-----------------------------------------------------------------------------
(* Properties of the retry budget.                                          *)

SeedCall == op \in {"read_seeded", "read_optional_seed"}
\* the base names a file: an absolute path or a file:// locator
FileBacked(base) == StartsWith(base, <<"/">>) \/ StartsWith(base, FileScheme)
Budget == IF FileBacked(arg.base) THEN arg.file_retries ELSE arg.retries

\* C12: every fetch read_seeded has issued was given file_retries when the
\* base is file-backed and the network retries otherwise, with the timeout
\* of the call; so the two fetches of a call are given the same budget.
C12_RetryBudget ==
    SeedCall =>
        \A i \in 1..Len(loc.log) :
            /\ loc.log[i].retries = Budget
            /\ loc.log[i].timeout = arg.timeout
            /\ loc.log[i].retries = loc.log[1].retries

\* two fetches were made for a bare absolute path, with file_retries
\* different from retries, and both were given file_retries
C12_Witness ==
    /\ SeedDone /\ Len(loc.log) = 2
    /\ StartsWith(arg.base, <<"/">>)
    /\ arg.file_retries # arg.retries
    /\ loc.log[1].retries = arg.file_retries
    /\ loc.log[2].retries = arg.file_retries

-----------------------------------------------------------------------------
(* Properties of get_base_cfg called twice.                                 *)

TwiceRunning == op = "get_base_cfg"
TwiceDone == pc = "done" /\ op = "get_base_cfg"

\* C13: two calls of get_base_cfg on the same system file, fragments and
\* command line give the same outcome, the same document or the same error,
\* whatever the caller stored into the first document in between; and
\* CFG_BUILTIN is at every moment what it was before the first call.
C13_Repeatable ==
    /\ TwiceRunning => Deref(heap, arg.builtin) = loc.builtin
    /\ TwiceDone => loc.second = loc.first

\* the first call returned a document holding a mapping that came from the
\* defaults, the caller stored into that mapping, and the second call gave
\* the document the first had given
C13_Witness ==
    /\ TwiceDone /\ loc.writes > 0
    /\ ~Raised(ret)
    /\ "n" \in TKeys(loc.first.tree) /\ "n" \in TKeys(loc.builtin)
    /\ loc.first.tree.items["n"] = loc.builtin.items["n"]
    /\ Deref(heap, loc.held).items["n"] # loc.first.tree.items["n"]
    /\ loc.second = loc.first

-----------------------------------------------------------------------------
(* Properties of the configuration resolution.                              *)

ConfDDone == pc = "done" /\ op = "read_conf_d"
ConfdDone == pc = "done" /\ op = "read_conf_with_confd"
BaseDone == pc = "done" /\ op = "merge_base_cfg"
EmptyT == DictT(NoItems)

\* the document a text stands for, the empty one if it stands for none
LayerOf(text) ==
    LET y == yaml_load(text)
    IN  IF y.ok /\ y.tree.kind = "dict" THEN y.tree ELSE EmptyT
\* the document of a path, the empty one if no file is there
LayerAt(fs, p) == IF isfile(fs, p) THEN LayerOf(fs[p].data) ELSE EmptyT
\* every file and directory is what its reader expects and can be read
AllReadable(fs) ==
    /\ \A p \in DOMAIN fs : fs[p].readable
    /\ CfgFile \in DOMAIN fs => fs[CfgFile].type = "file"
\* the .cfg files of a directory
CfgFilesOf(fs, d) ==
    {n \in listdir(fs, d) : EndsWith(n, CfgSuffix) /\ isfile(fs, path_join(d, n))}
\* a text that fails to parse or parses to something else than a mapping
BadText(t) == LET y == yaml_load(t) IN ~y.ok \/ y.tree.kind # "dict"
\* what a call came to: the error, or the document
Outcome(r) == [exc |-> r.exc, doc |-> IF Raised(r) THEN EmptyT ELSE Deref(r.h, r.val)]
\* a file system without the path p
Without(fs, p) == [q \in DOMAIN fs \ {p} |-> fs[q]]

\* the layers of a call of merge_base_cfg whose system file names no conf_d
KernLayer == LayerOf(read_cc_from_cmdline(get_cmdline(arg.environ, arg.fs)))
SysLayer == LayerAt(arg.fs, CfgFile)
FragLayer == LayerAt(arg.fs, path_join(CfgFile \o DotD, <<"1">> \o CfgSuffix))
BuiltinLayer ==
    IF Deref(heap0, arg.cfg_builtin).kind = "dict"
    THEN Deref(heap0, arg.cfg_builtin) ELSE EmptyT
Layers == <<KernLayer, SysLayer, FragLayer, BuiltinLayer>>
\* the first of the layers, from the highest down, that sets k
TopLayer(k) == Layers[Min({i \in 1..4 : k \in TKeys(Layers[i])})]

\* C4: the kernel command line wins over the system file, that over the
\* fragments, those over the built-in defaults: resolution succeeds and each
\* key has the value of the highest layer setting it; defaults {x:1, y:1},
\* system file {y:2}, fragment {z:3} and command line {x:9} give
\* {x:9, y:2, z:3}.
C4_LayerPrecedence ==
    (BaseDone /\ AllReadable(arg.fs) /\ "conf_d" \notin TKeys(SysLayer))
        => /\ ~Raised(ret)
           /\ TKeys(RetT) = UNION {TKeys(Layers[i]) : i \in 1..4}
           /\ \A k \in TKeys(RetT) :
                TopLayer(k).items[k].kind # "dict" => RetT.items[k] = TopLayer(k).items[k]

\* the fragments of the call of read_conf_d, and those setting k
Frags == CfgFilesOf(arg.fs, arg.confd)
FragDoc(n) == LayerAt(arg.fs, path_join(arg.confd, n))
Setting(k) == {n \in Frags : k \in TKeys(FragDoc(n))}

\* C5: the fragments are folded from the largest file name down with the
\* accumulated document as target: the load succeeds, every key of a
\* fragment is in the result, and a key set by several fragments has the
\* value of the one with the largest name.
C5_LargestNameWins ==
    (ConfDDone /\ AllReadable(arg.fs))
        => /\ ~Raised(ret)
           /\ TKeys(RetT) = UNION {TKeys(FragDoc(n)) : n \in Frags}
           /\ \A k \in TKeys(RetT) : \A n \in Setting(k) :
                ((\A m \in Setting(k) \ {n} : StrLess(m, n))
                    /\ FragDoc(n).items[k].kind # "dict")
                    => RetT.items[k] = FragDoc(n).items[k]

\* C6 as stated: a layer that is missing or malformed never makes the
\* resolution raise; what escapes is the type error of a merge only.
C6_OnlyMergeErrors ==
    ((ConfdDone \/ BaseDone) /\ AllReadable(arg.fs) /\ Raised(ret))
        => ret.exc.type = "TypeError" /\ ret.exc.what \in {"source", "candidate"}

\* the conf_d entry of the system file, if it has one
HasConfD == "conf_d" \in TKeys(SysLayer)
ConfDEntry == SysLayer.items["conf_d"]
ConfDRejected ==
    /\ HasConfD
    /\ ConfDEntry.kind # "str"
    /\ ConfDEntry.kind = "int" => ConfDEntry.atom # <<"0">>
    /\ ConfDEntry.kind \in {"list", "str"} => ConfDEntry.atom # <<>>
    /\ ConfDEntry.kind # "NoneType"
\* the documents that can contribute to the call
Contributors ==
    <<SysLayer, FragLayer, LayerAt(arg.fs, path_join(AltDir, <<"5">> \o CfgSuffix))>>
        \o (IF op = "merge_base_cfg" THEN <<KernLayer, BuiltinLayer>> ELSE <<>>)
\* two of them set the same key
Overlap ==
    \E i \in DOMAIN Contributors : \E j \in DOMAIN Contributors \ {i} :
        TKeys(Contributors[i]) \cap TKeys(Contributors[j]) # {}

\* C6, amended: an absent or unparseable system file, an absent fragment
\* directory, a malformed fragment, a conf_d entry that is empty, null or
\* zero, and an unparseable command-line block contribute nothing and raise
\* nothing.  What escapes the resolution is the TypeError of a merge, the
\* TypeError raised for a conf_d entry that is set to something other than
\* a string, and the IOError of a file that is there but cannot be read.
C6_DegradeOrRaise ==
    (ConfdDone \/ BaseDone)
        => /\ Raised(ret) =>
                \/ ret.exc.type = "TypeError" /\ ret.exc.what \in {"source", "candidate"}
                     /\ Overlap
                \/ ret.exc.type = "TypeError" /\ ret.exc.what = "conf_d"
                     /\ ConfDRejected /\ ret.exc.tname = ConfDEntry.kind
                \/ ret.exc.type = "IOError" /\ ~AllReadable(arg.fs)
           /\ (AllReadable(arg.fs) /\ isfile(arg.fs, CfgFile) /\ ConfDRejected)
                => ret.exc.type = "TypeError" /\ ret.exc.what = "conf_d"
           /\ (/\ AllReadable(arg.fs)
               /\ ~ConfDRejected
               /\ ~Overlap)
                => /\ ~Raised(ret)
                   /\ TKeys(SysLayer) \subseteq TKeys(RetT)
                   /\ op = "merge_base_cfg" => TKeys(KernLayer) \subseteq TKeys(RetT)
                   /\ TKeys(RetT) \subseteq UNION {TKeys(Contributors[i]) : i \in DOMAIN Contributors}

\* a resolution that returned although its system file and its command-line
\* block do not parse and its fragment is malformed
C6_Witness ==
    /\ BaseDone /\ ~Raised(ret)
    /\ AllReadable(arg.fs)
    /\ isfile(arg.fs, CfgFile) /\ BadText(arg.fs[CfgFile].data)
    /\ isfile(arg.fs, path_join(CfgFile \o DotD, <<"1">> \o CfgSuffix))
    /\ BadText(arg.fs[path_join(CfgFile \o DotD, <<"1">> \o CfgSuffix)].data)
    /\ arg.environ.cmdline = CmdlineBroken
    /\ TKeys(RetT) = TKeys(BuiltinLayer)
    /\ TKeys(RetT) # {}

\* the fragments whose text is bad
BadFrags ==
    {n \in Frags : /\ arg.fs[path_join(arg.confd, n)].readable
                   /\ BadText(arg.fs[path_join(arg.confd, n)].data)}

\* C7: a fragment that fails to parse, or parses to something else than a
\* mapping, changes nothing: read_conf_d comes to what it comes to on the
\* directory without that fragment, and it returns whenever that returns.
C7_BadFragmentSkipped ==
    ConfDDone =>
        \A n \in BadFrags :
            Outcome([h |-> heap, val |-> ret.val, exc |-> ret.exc])
                = Outcome(read_conf_d(<<>>, Without(arg.fs, path_join(arg.confd, n)),
                                      arg.confd, arg.ord))

\* a load that returned a key of a good fragment read after a bad one
C7_Witness ==
    /\ ConfDDone /\ ~Raised(ret)
    /\ \E n \in BadFrags : \E m \in Frags \ BadFrags :
         /\ StrLess(m, n)
         /\ TKeys(FragDoc(m)) # {}
         /\ TKeys(RetT) = TKeys(FragDoc(m))

-----------------------------------------------------------------------------
(* Properties of the choice of the fragment directory.                      *)

\* the directory the rule picks, <<>> for none: the conf_d entry of the
\* system document if it has one, else <cfgfile>.d if that is a directory
ChosenDir ==
    IF HasConfD
    THEN IF ConfDEntry.kind = "str" THEN Strip(ConfDEntry.atom) ELSE <<>>
    ELSE IF isdir(arg.fs, CfgFile \o DotD) THEN CfgFile \o DotD ELSE <<>>
\* the document of a directory, which in these calls holds one fragment at most
DirDoc(d) ==
    IF CfgFilesOf(arg.fs, d) = {} THEN EmptyT
    ELSE LayerAt(arg.fs, path_join(d, CHOOSE n \in CfgFilesOf(arg.fs, d) : TRUE))
\* the merge of two documents in which a wins where both set a key
RECURSIVE Override(_, _)
Override(a, b) ==
    DictT([k \in TKeys(a) \cup TKeys(b) |->
             IF k \notin TKeys(b) THEN a.items[k]
             ELSE IF k \notin TKeys(a) THEN b.items[k]
             ELSE IF a.items[k].kind = "dict" /\ b.items[k].kind = "dict"
                  THEN Override(a.items[k], b.items[k])
                  ELSE a.items[k]])

\* C14: read_conf_with_confd takes the fragment directory from the conf_d
\* entry of the system document if there is one, else <cfgfile>.d if that is
\* a directory; with a directory that exists the result is the fragments
\* merged with the system document, the system document winning, and
\* otherwise the system document alone.
C14_SystemOverFragments ==
    (ConfdDone /\ AllReadable(arg.fs))
        => /\ ~Raised(ret)
           /\ RetT = (IF ChosenDir # <<>> /\ isdir(arg.fs, ChosenDir)
                      THEN Override(SysLayer, DirDoc(ChosenDir))
                      ELSE SysLayer)

\* C14 fails on a fragment and a system file that set the same scalar key:
\* the call raises the TypeError of mergedict
C14_CollisionRaises ==
    /\ ConfdDone /\ AllReadable(arg.fs)
    /\ ChosenDir = CfgFile \o DotD
    /\ SysLayer = DictT([k \in {"x"} |-> IntT(<<"2">>)])
    /\ FragLayer = DictT([k \in {"x"} |-> IntT(<<"1">>)])
    /\ ret.exc.type = "TypeError" /\ ret.exc.what = "source"
-----------------------------------------------------------------------------
(* Properties of the end of the scan.                                       *)

InScan == pc = "cc_loop" /\ op = "read_cc_from_cmdline"
\* no end_cc follows the cc: at begin
OpenBlock(c, begin) == \A i \in Occurrences(c, tag_end) : i < begin + begin_l

\* C15: the scan of read_cc_from_cmdline ends.  Each pass moves begin
\* strictly forward or leaves it negative, and end never lies beyond the
\* command line; a cc: without an end_cc after it gives a block that runs to
\* the end of the command line, is the last token collected and leaves the
\* loop; and a call that is in the loop reaches its return.
C15_ScanTerminates ==
    /\ [][(InScan /\ pc' = "cc_loop") =>
            /\ loc'.begin > loc.begin \/ loc'.begin < 0
            /\ loc'.begin < Len(arg.cmdline)
            /\ loc'.end <= Len(arg.cmdline)
            /\ OpenBlock(arg.cmdline, loc.begin) =>
                 /\ loc'.end = Len(arg.cmdline)
                 /\ loc'.begin < 0
                 /\ loc'.tokens[Len(loc'.tokens)] =
                      Replace(LStrip(Slice(arg.cmdline, loc.begin + begin_l,
                                           Len(arg.cmdline))),
                              Backslash_n, Newline)
         ]_vars
    /\ [][(InScan /\ pc' = "done") =>
            Len(loc.tokens) <= Cardinality(Occurrences(arg.cmdline, tag_begin))]_vars
    /\ InScan ~> (pc = "done")

\* a call that collected a closed block and then a block without end_cc,
\* which runs to the end of the command line
C15_Witness ==
    /\ CcDone /\ Len(loc.tokens) = 2
    /\ loc.end = Len(arg.cmdline)
    /\ ~EndsWith(arg.cmdline, tag_end)
    /\ loc.tokens[2] # <<>>
-----------------------------------------------------------------------------
(* Properties of what mergedict writes.                                     *)

MergeReturned == pc = "done" /\ op \in {"mergedict", "mergedict_shared"}
\* no dict can be reached from both operands when the call is entered
Apart == Reach(heap0, arg.src) \cap Reach(heap0, arg.cand) = {}

\* C16: a call of mergedict(src, cand) allocates nothing and changes none of
\* the dicts that src did not reach when the call was entered.  So when the
\* operands shared no mapping then, cand is after the call what it was
\* before, at every level, whether the call returns or raises; and a call
\* that returns gives back the src object, holding every key it held.
C16_WritesOnlySrc ==
    MergeReturned =>
        /\ Len(heap) = Len(heap0)
        /\ \A id \in DOMAIN heap0 \ Reach(heap0, arg.src) : heap[id] = heap0[id]
        /\ Apart => CandT = CandT0
        /\ ~Raised(ret) =>
             /\ ret.val = arg.src
             /\ TKeys(SrcT0) \subseteq TKeys(SrcT)

\* a call on operands that share nothing wrote a nested mapping of src and
\* then raised; cand is what it was
C16_Witness ==
    /\ MergeReturned /\ Apart
    /\ Raised(ret)
    /\ SrcT # SrcT0
    /\ \E id \in Reach(heap0, arg.src) \ {arg.src.ref} : heap[id] # heap0[id]
    /\ CandT = CandT0

\* the precondition of C16 matters: operands that share a mapping can
\* leave cand changed
C16_SharedWitness ==
    /\ MergeReturned /\ ~Apart
    /\ ~Raised(ret)
    /\ CandT # CandT0
====
